---- MODULE Spec2Model ----
(***************************************************************************)
(* A model of root_dash_lib/data_viewer.py: the DataViewer class (write,   *)
(* lineplot) and the module function get_tick_range_and_spacing.           *)
(*                                                                         *)
(* Numbers.  The floating-point quantities of get_tick_range_and_spacing   *)
(* are decimal fixed-point integers:                                       *)
(*   a total            t  stands for  t / 100                             *)
(*   ax_frac            f  stands for  f / 100                             *)
(*   ymax               y  stands for  y / 10^4     (total * 1.05)         *)
(*   the tick spacing   x  stands for  x / 10^6     (ax_frac * ymax)       *)
(* so that every product of the code is exact in the model.                *)
(***************************************************************************)
EXTENDS Integers, Sequences, FiniteSets, TLC

VARIABLES
    rc,        \* matplotlib's process-wide rcParams: [palette, style]
    figs,      \* pyplot's process-wide figure registry: the open figure numbers
    assigned,  \* the <<categories, colors>> of every lineplot call that derived its colors
    ncalls,    \* how many lineplot calls this process has made
    last       \* the most recent call: its arguments, its locals and its outcome

vars == <<rc, figs, assigned, ncalls, last>>

\* ------------------------------------------------------------------ bounds

\* the longest totals get_tick_range_and_spacing is called with
MaxTotals == 2
\* the largest digit of the totals it is called with
MaxSmall == 4
\* the largest value of a plotted frame
MaxVal == 3
\* the longest list of categories (and of columns) a caller names
MaxCats == 2
\* the most columns of a plotted frame
MaxWide == 11
\* the most lineplot calls of one process
MaxCalls == 3

\* ----------------------------------------------------------------- helpers

Range(s) == {s[i] : i \in 1..Len(s)}

SeqsUpTo(S, n) == UNION {[1..k -> S] : k \in 0..n}

Abs(n) == IF n < 0 THEN 0 - n ELSE n

\* ---------------------------------------------- get_tick_range_and_spacing

\* 1.05, in hundredths
Headroom == 105

\* the decimal places the fixed-point tick spacing keeps
MicroDigits == 3 + 3

\* pd.Series.sum(): 0 for an empty series
RECURSIVE SeriesSum(_)
SeriesSum(total) ==
    IF total = <<>> THEN 0 ELSE total[1] + SeriesSum(Tail(total))

\* ndarray.max() of a non-empty array
ArrayMax(total) == CHOOSE m \in Range(total) : \A e \in Range(total) : e <= m

YMax_swapped(total, cumulative) ==
    IF cumulative THEN ArrayMax(total) * Headroom ELSE SeriesSum(total) * Headroom

\* lines 266-269 (total non-empty when not cumulative)
YMax(total, cumulative) ==
    IF cumulative THEN SeriesSum(total) * Headroom ELSE ArrayMax(total) * Headroom

\* line 272
UnroundedTickSpacing(ax_frac, ymax) == ax_frac * ymax

RECURSIVE NumDigits(_)
NumDigits(n) == IF n < 10 THEN 1 ELSE 1 + NumDigits(n \div 10)

\* np.floor(np.log10(x)) of x / 10^6: -inf at 0, nan below 0
FloorLog10(x) ==
    IF x > 0 THEN [kind |-> "int", val |-> NumDigits(x) - 1 - MicroDigits]
    ELSE IF x = 0 THEN [kind |-> "ninf"]
    ELSE [kind |-> "nan"]

\* What float -> int64 gives for nan: INT64_MIN on x86-64, 0 on aarch64.
NanCasts == {[kind |-> "int64min"], [kind |-> "int", val |-> 0]}

\* .astype(int): -inf saturates to INT64_MIN; nan is whatever the build's
\* conversion instruction gives
AsTypeInt(v, nanCast) ==
    CASE v.kind = "int" -> v
      [] v.kind = "ninf" -> [kind |-> "int64min"]
      [] v.kind = "nan" -> nanCast

\* unary minus of an int64: INT64_MIN wraps to itself
Negative64(v) ==
    IF v.kind = "int64min" THEN v ELSE [kind |-> "int", val |-> 0 - v.val]

\* np.rint of n / p, times p: the nearest multiple of p, ties to even
RoundHalfEven(n, p) ==
    LET q == n \div p
        r == n % p
    IN  IF 2 * r < p THEN q * p
        ELSE IF 2 * r > p THEN (q + 1) * p
        ELSE IF q % 2 = 0 THEN q * p ELSE (q + 1) * p

NpRound_toUnits(x, decimals) ==
    IF decimals.kind = "int64min" THEN [outcome |-> "OverflowError"]
    ELSE [outcome |-> "returned", value |-> RoundHalfEven(x, 10 ^ MicroDigits)]

\* np.round(x, decimals): decimals is parsed as a C int, so INT64_MIN is an
\* OverflowError; otherwise x is rounded to a multiple of 10^-decimals
NpRound(x, decimals) ==
    IF decimals.kind = "int64min" THEN [outcome |-> "OverflowError"]
    ELSE IF decimals.val >= MicroDigits THEN [outcome |-> "returned", value |-> x]
    ELSE [outcome |-> "returned",
          value |-> RoundHalfEven(x, 10 ^ (MicroDigits - decimals.val))]

\* get_tick_range_and_spacing( total, cumulative, ax_frac )
GetTickRangeAndSpacing(total, cumulative, ax_frac, nanCast) ==
    IF ~cumulative /\ total = <<>>
    THEN [outcome |-> "ValueError"]      \* max() of a zero-size array
    ELSE
      LET ymax == YMax(total, cumulative)
          unrounded_tick_spacing == UnroundedTickSpacing(ax_frac, ymax)
          decimals == Negative64(AsTypeInt(FloorLog10(unrounded_tick_spacing), nanCast))
          rounded == NpRound(unrounded_tick_spacing, decimals)
      IN  IF rounded.outcome = "returned"
          THEN [outcome |-> "returned", ymax |-> ymax,
                unrounded |-> unrounded_tick_spacing,
                tick_spacing |-> rounded.value]
          ELSE [outcome |-> rounded.outcome, ymax |-> ymax,
                unrounded |-> unrounded_tick_spacing]

\* the totals the callers are drawn from, in hundredths: a negative sum,
\* zero, 0.01 .. 0.04, 1 .. 4, 0.91 (whose spacing rounds up to a power of
\* ten) and the 962 of the documentation
TickVals ==
    {0 - 200} \cup (0..MaxSmall) \cup {100 * k : k \in 1..MaxSmall} \cup {91, 96200}

TickTotals == SeqsUpTo(TickVals, MaxTotals)

\* ax_frac: the default 0.1, and 0.25
AxFracs == {10, 25}

\* ------------------------------------------------------ DataViewer.lineplot

\* An argument that defaults to None
None == [given |-> FALSE]

Some(v) == [given |-> TRUE, val |-> v]

\* len( sns.color_palette() ): the current color cycle has ten colors, under
\* matplotlib's defaults and under every seaborn theme
PaletteLen == 10

CumSum_shifted(s) ==
    [i \in 1..Len(s) |-> IF i = 1 THEN 0 ELSE s[i - 1]]

\* Series.cumsum(): each value added to the running sum before it
RECURSIVE CumSum(_)
CumSum(s) ==
    IF s = <<>> THEN <<>>
    ELSE LET before == CumSum(SubSeq(s, 1, Len(s) - 1))
             running == IF before = <<>> THEN 0 ELSE before[Len(before)]
         IN  Append(before, running + s[Len(s)])

\* lines 131-135: df.cumsum( axis='rows' ) and totals.cumsum()
CumulativeTransform(df, totals, cumulative) ==
    IF cumulative
    THEN [df |-> [df EXCEPT !.data = [c \in DOMAIN df.data |-> CumSum(df.data[c])]],
          totals |-> IF totals.given THEN Some(CumSum(totals.val)) ELSE totals]
    ELSE [df |-> df, totals |-> totals]

\* lines 139-140
DefaultCategories(categories, df) ==
    IF categories.given THEN categories.val ELSE df.columns

\* line 142: sns.color_palette() is the color cycle of the rcParams as they
\* are now; color i of it
ColorPalette(rcNow, i) == <<rcNow.palette, i>>

\* line 143: the dict comprehension over enumerate( categories ); a category
\* named twice keeps the color of its last place
DerivedColors(categories, rcNow) ==
    [c \in Range(categories) |->
        LET i == CHOOSE k \in 1..Len(categories) :
                    /\ categories[k] = c
                    /\ \A m \in 1..Len(categories) : categories[m] = c => m <= k
        IN  ColorPalette(rcNow, i - 1)]

\* line 145: sns.set(style=seaborn_style) sets the style and, palette being
\* left to its default, the "deep" color cycle, process-wide
SnsSet(rcNow, seaborn_style) ==
    [palette |-> "deep", style |-> seaborn_style]

\* line 148: plt.figure() opens the next figure number and registers it
PltFigure(figsNow) ==
    IF figsNow = {} THEN 1
    ELSE 1 + (CHOOSE m \in figsNow : \A f \in figsNow : f <= m)

\* lines 150-187: the place of the first category whose df[category_j] or
\* category_colors[category_j] is a KeyError, 0 when there is none
FirstKeyError(categories, df, category_colors) ==
    LET bad == {j \in 1..Len(categories) :
                    \/ categories[j] \notin Range(df.columns)
                    \/ categories[j] \notin DOMAIN category_colors}
    IN  IF bad = {} THEN 0 ELSE CHOOSE j \in bad : \A k \in bad : j <= k

\* lines 150-169: what ax.plot and ax.scatter draw for the categories before
\* place stop
DrawCategories(categories, df, category_colors, stop) ==
    [j \in 1..(stop - 1) |->
        [label |-> categories[j], xs |-> df.index, ys |-> df.data[categories[j]],
         color |-> category_colors[categories[j]]]]

PlotTotals_truncating(xs, totals) ==
    LET n == IF Len(xs) < Len(totals) THEN Len(xs) ELSE Len(totals)
    IN  [outcome |-> "drawn", xs |-> SubSeq(xs, 1, n), ys |-> SubSeq(totals, 1, n)]

\* lines 190-205: ax.plot(xs, totals) is a ValueError when x and y differ in
\* their first dimension
PlotTotals(xs, totals) ==
    IF Len(xs) # Len(totals) THEN [outcome |-> "ValueError"]
    ELSE [outcome |-> "drawn", xs |-> xs, ys |-> totals]

LegendNcol_perFive(categories) == Len(categories) \div 5 + 1

\* line 235
LegendNcol(categories) == Len(categories) \div 4 + 1

\* lines 230-236: the heights of the columns ax.legend lays n entries out in:
\* min(ncol, n) columns, the first n mod ncols of them one entry taller
LegendColumns(n, ncol) ==
    IF n = 0 THEN <<>>
    ELSE LET ncols == IF ncol < n THEN ncol ELSE n
             nrows == n \div ncols
             num_largecol == n % ncols
         IN  [c \in 1..ncols |-> IF c <= num_largecol THEN nrows + 1 ELSE nrows]

\* What a call that raised leaves behind
Raised(error, rcNow, figsNow, fig, colors, drawn, totals_drawn) ==
    [outcome |-> error, rc |-> rcNow, figs |-> figsNow, fig |-> fig,
     colors |-> colors, drawn |-> drawn, totals_drawn |-> totals_drawn,
     legend |-> None, shows |-> 0, returned |-> None]

\* DataViewer.lineplot, lines 131-249, from the rcParams and the figure
\* registry it finds.  The annotations, the scales, the limits, the ticks and
\* the labels (lines 172-187, 207-227, 238-243) draw on the figure only and
\* are left out.
Lineplot(a, rcNow, figsNow) ==
    LET t == CumulativeTransform(a.df, a.totals, a.cumulative)
        df == t.df
        totals == t.totals
        xs == df.index
        categories == DefaultCategories(a.categories, df)
    IN
    IF ~a.category_colors.given /\ Len(categories) > PaletteLen
    THEN \* line 143: color_palette[i] past the end of the palette
         Raised("IndexError", rcNow, figsNow, 0, None, <<>>, None)
    ELSE
    LET category_colors == IF a.category_colors.given THEN a.category_colors.val
                           ELSE DerivedColors(categories, rcNow)
        colors == IF a.category_colors.given THEN None
                  ELSE Some([j \in 1..Len(categories) |-> category_colors[categories[j]]])
        rcSet == SnsSet(rcNow, a.seaborn_style)
        fig == PltFigure(figsNow)
        figsOpen == figsNow \cup {fig}
        bad == FirstKeyError(categories, df, category_colors)
        stop == IF bad = 0 THEN Len(categories) + 1 ELSE bad
        drawn == DrawCategories(categories, df, category_colors, stop)
    IN
    IF bad # 0
    THEN Raised("KeyError", rcSet, figsOpen, fig, colors, drawn, None)
    ELSE
    LET plotted == IF totals.given THEN PlotTotals(xs, totals.val)
                   ELSE [outcome |-> "none"]
    IN
    IF plotted.outcome = "ValueError"
    THEN Raised("ValueError", rcSet, figsOpen, fig, colors, drawn, None)
    ELSE
    LET totals_drawn == IF totals.given
                        THEN Some([label |-> "Total", xs |-> plotted.xs, ys |-> plotted.ys])
                        ELSE None
        entries == Len(drawn) + (IF totals.given THEN 1 ELSE 0)
        legend == IF a.include_legend
                  THEN Some([ncol |-> LegendNcol(categories), entries |-> entries,
                             columns |-> LegendColumns(entries, LegendNcol(categories))])
                  ELSE None
    IN  \* line 246, st.write(fig), and line 249
        [outcome |-> "returned", rc |-> rcSet, figs |-> figsOpen, fig |-> fig,
         colors |-> colors, drawn |-> drawn, totals_drawn |-> totals_drawn,
         legend |-> legend, shows |-> 1, returned |-> Some(fig)]

\* -------------------------------------------------------- DataViewer.write

\* st.write of a missing key's message
NotFoundText == [kind |-> "text"]

\* the frame st.write is handed, by its columns
FrameShown(df) == [kind |-> "frame", columns |-> df.columns]

\* df[columns]: a KeyError when a label is missing
SelectColumns(df, columns) ==
    IF \E k \in 1..Len(columns) : columns[k] \notin Range(df.columns)
    THEN [outcome |-> "KeyError"]
    ELSE [outcome |-> "selected",
          df |-> [columns |-> columns, index |-> df.index,
                  data |-> [c \in Range(columns) |-> df.data[c]]]]

\* DataViewer.write, lines 45-60; radio is what the user picks in the widget
\* of line 46
Write(data, data_key, columns, radio) ==
    LET key == IF data_key.given THEN data_key.val ELSE radio
    IN  IF key \notin DOMAIN data
        THEN [outcome |-> "returned", key |-> key, written |-> Some(NotFoundText)]
        ELSE LET shown_df == IF columns.given
                             THEN SelectColumns(data[key], columns.val)
                             ELSE [outcome |-> "selected", df |-> data[key]]
             IN  IF shown_df.outcome = "KeyError"
                 THEN [outcome |-> "KeyError", key |-> key, written |-> None]
                 ELSE \* line 60 writes data[data_key], not shown_df
                      [outcome |-> "returned", key |-> key,
                       written |-> Some(FrameShown(data[key]))]

\* ------------------------------------------------------------- the callers

ColumnNames == <<"A", "B", "C", "D", "E", "F", "G", "H", "I", "J", "K", "L">>

\* the x-axis keys of the plotted frames
XKeys == <<2020, 2021, 2022>>

Styles == {"whitegrid", "darkgrid"}

Frame(columns, index, data) == [columns |-> columns, index |-> index, data |-> data]

\* the sum of row i over the columns
RECURSIVE RowSum(_, _, _)
RowSum(df, i, k) ==
    IF k = 0 THEN 0 ELSE RowSum(df, i, k - 1) + df.data[df.columns[k]][i]

RowSums(df) == [i \in 1..Len(df.index) |-> RowSum(df, i, Len(df.columns))]

\* colors a caller supplies for the names S
CallerColors(S) ==
    [c \in S |-> <<"caller", CHOOSE k \in 1..Len(ColumnNames) : ColumnNames[k] = c>>]

LineplotArgs(df, totals, categories, cumulative, category_colors, seaborn_style, include_legend) ==
    [df |-> df, totals |-> totals, categories |-> categories,
     cumulative |-> cumulative, category_colors |-> category_colors,
     seaborn_style |-> seaborn_style, include_legend |-> include_legend]

\* frames of two columns over XKeys, A of every value up to MaxVal and B of
\* zeros and ones, plotted with and without their totals
ValueFrames ==
    {Frame(<<"A", "B">>, XKeys, [c \in {"A", "B"} |-> IF c = "A" THEN a ELSE b]) :
        a \in [1..Len(XKeys) -> 0..MaxVal], b \in [1..Len(XKeys) -> {0, 1}]}

ValueArgs ==
    UNION {{LineplotArgs(df, totals, None, cumulative, None, "whitegrid", TRUE) :
                totals \in {None, Some(RowSums(df))}, cumulative \in BOOLEAN} :
           df \in ValueFrames}

\* one frame, plotted with every list of up to MaxCats names (C is no column
\* of it), with totals that fit and totals one short, with and without colors
ShapeFrame ==
    Frame(<<"A", "B">>, <<2020, 2021>>,
          [c \in {"A", "B"} |-> IF c = "A" THEN <<1, 2>> ELSE <<0, 1>>])

CatLists == SeqsUpTo({"A", "B", "C"}, MaxCats) \ {<<>>}

ShapeArgs ==
    {LineplotArgs(ShapeFrame, totals, categories, cumulative, category_colors,
                  seaborn_style, include_legend) :
        totals \in {None, Some(RowSums(ShapeFrame)), Some(Tail(RowSums(ShapeFrame)))},
        categories \in {None} \cup {Some(c) : c \in CatLists},
        cumulative \in BOOLEAN,
        category_colors \in {None, Some(CallerColors({"A", "B", "C"})),
                             Some(CallerColors({"A"}))},
        seaborn_style \in Styles,
        include_legend \in BOOLEAN}

\* frames of 1 .. MaxWide columns and one row
WideFrame(n) ==
    Frame(SubSeq(ColumnNames, 1, n), <<2020>>,
          [c \in Range(SubSeq(ColumnNames, 1, n)) |-> <<1>>])

LegendArgs ==
    {LineplotArgs(WideFrame(n), totals, None, FALSE, category_colors, "whitegrid",
                  include_legend) :
        n \in 1..MaxWide,
        totals \in {None, Some(<<1>>)},
        category_colors \in {None, Some(CallerColors(Range(ColumnNames)))},
        include_legend \in BOOLEAN}

\* the data dicts DataViewer.write is called with
WriteFrames == {WideFrame(n) : n \in 1..(MaxCats + 1)}

WriteData ==
    [{"raw"} -> WriteFrames] \cup [{"raw", "clean"} -> WriteFrames]

\* ----------------------------------------------------------------- state

\* the process as it starts: matplotlib's own defaults, no figure open
ProcessStart ==
    /\ rc = [palette |-> "matplotlib", style |-> "matplotlib"]
    /\ figs = {}
    /\ assigned = {}
    /\ ncalls = 0

PendingLineplot(a) == [op |-> "lineplot", pc |-> "call", args |-> a]

\* one call, of any of the three operations, about to be made
Init ==
    /\ ProcessStart
    /\ \/ \E total \in TickTotals, cumulative \in BOOLEAN, ax_frac \in AxFracs :
            last = [op |-> "tick", pc |-> "call", total |-> total,
                    cumulative |-> cumulative, ax_frac |-> ax_frac]
       \/ \E a \in ValueArgs : last = PendingLineplot(a)
       \/ \E a \in ShapeArgs : last = PendingLineplot(a)
       \/ \E a \in LegendArgs : last = PendingLineplot(a)
       \/ \E data \in WriteData, data_key \in {None} \cup {Some(k) : k \in {"raw", "clean", "other"}},
             columns \in {None} \cup {Some(c) : c \in CatLists} :
            last = [op |-> "write", pc |-> "call", data |-> data,
                    data_key |-> data_key, columns |-> columns]

TickCall ==
    /\ last.op = "tick"
    /\ last.pc = "call"
    /\ \E nanCast \in NanCasts :
        last' = [op |-> "tick", pc |-> "done", total |-> last.total,
                 cumulative |-> last.cumulative, ax_frac |-> last.ax_frac,
                 res |-> GetTickRangeAndSpacing(last.total, last.cumulative,
                                                last.ax_frac, nanCast)]
    /\ UNCHANGED <<rc, figs, assigned, ncalls>>

LineplotCall ==
    /\ last.op = "lineplot"
    /\ last.pc = "call"
    /\ LET res == Lineplot(last.args, rc, figs)
           categories == DefaultCategories(last.args.categories, last.args.df)
       IN  /\ rc' = res.rc
           /\ figs' = res.figs
           /\ assigned' = IF res.colors.given
                          THEN assigned \cup {<<categories, res.colors.val>>}
                          ELSE assigned
           /\ last' = [op |-> "lineplot", pc |-> "done", args |-> last.args,
                       categories |-> categories, res |-> res]
    /\ ncalls' = ncalls + 1

WriteCall ==
    /\ last.op = "write"
    /\ last.pc = "call"
    /\ \E radio \in DOMAIN last.data :
        last' = [op |-> "write", pc |-> "done", data |-> last.data,
                 data_key |-> last.data_key, columns |-> last.columns,
                 res |-> Write(last.data, last.data_key, last.columns, radio)]
    /\ UNCHANGED <<rc, figs, assigned, ncalls>>

Next == TickCall \/ LineplotCall \/ WriteCall

Spec == Init /\ [][Next]_vars

\* A process whose sessions rerun the page: up to MaxCalls lineplot calls, one
\* after the other, each with the arguments its session chose
SessionArgs ==
    {LineplotArgs(ShapeFrame, None, categories, FALSE, category_colors,
                  seaborn_style, TRUE) :
        categories \in {None, Some(<<"B", "A">>), Some(<<"A">>)},
        category_colors \in {None, Some(CallerColors({"A", "B"}))},
        seaborn_style \in Styles}

InitSessions ==
    /\ ProcessStart
    /\ last = [op |-> "none", pc |-> "done"]

SessionRerun ==
    /\ last.pc = "done"
    /\ ncalls < MaxCalls
    /\ \E a \in SessionArgs : last' = PendingLineplot(a)
    /\ UNCHANGED <<rc, figs, assigned, ncalls>>

NextSessions == SessionRerun \/ LineplotCall

SpecSessions == InitSessions /\ [][NextSessions]_vars

\* ---------------------------------------------------------- the properties

TickDone == last.op = "tick" /\ last.pc = "done"

\* the sum of s[1] .. s[i]
RECURSIVE PrefixSum(_, _)
PrefixSum(s, i) == IF i = 0 THEN 0 ELSE PrefixSum(s, i - 1) + s[i]

\* C1: for every non-empty totals, the y_max the call computes (and returns,
\* when it returns) is sum(totals) * 1.05 when cumulative and
\* max(totals) * 1.05 otherwise (y_max is in 1/10^4 and a total in 1/100, so
\* the factor 1.05 reads 105).
C1_YMaxIsSumOrMaxTimesHeadroom ==
    (TickDone /\ last.total # <<>>) =>
        LET n == Len(last.total) IN
        IF last.cumulative
        THEN last.res.ymax = 105 * PrefixSum(last.total, n)
        ELSE \E i \in 1..n :
                /\ \A j \in 1..n : last.total[j] <= last.total[i]
                /\ last.res.ymax = 105 * last.total[i]

C1_Witness ==
    /\ TickDone
    /\ last.cumulative
    /\ last.total = <<100, 200>>
    /\ last.res.outcome = "returned"
    /\ last.res.ymax = 31500

\* C2: for every non-empty totals whose values are all positive the call
\* returns a tick spacing that is greater than 0 and is ax_frac * y_max
\* rounded to the nearest multiple of 10^floor(log10(ax_frac * y_max)), also
\* when ax_frac * y_max is below 1; for totals [962] and ax_frac 0.1 it is 100.
C2_TickSpacingPositiveAndNice ==
    (TickDone /\ last.total # <<>> /\ \A j \in 1..Len(last.total) : last.total[j] > 0) =>
        /\ last.res.outcome = "returned"
        /\ last.res.tick_spacing > 0
        /\ last.res.unrounded = last.ax_frac * last.res.ymax
        /\ \E k \in 0..8 :
            /\ 10 ^ k <= last.res.unrounded
            /\ last.res.unrounded < 10 ^ (k + 1)
            /\ last.res.tick_spacing % (10 ^ k) = 0
            /\ 2 * Abs(last.res.tick_spacing - last.res.unrounded) <= 10 ^ k
        /\ (last.total = <<96200>> /\ last.ax_frac = 10 /\ ~last.cumulative) =>
              last.res.tick_spacing = 100 * 10 ^ 6

\* totals [0.04]: ax_frac * y_max is 0.0042, below 1, and the spacing 0.004
\* is positive
C2_Witness ==
    /\ TickDone
    /\ last.total = <<4>>
    /\ last.ax_frac = 10
    /\ last.res.outcome = "returned"
    /\ last.res.unrounded = 4200
    /\ last.res.tick_spacing = 4000

\* C3: the call ends in an error, and returns no pair, whenever totals is
\* empty or the computed y_max is <= 0, cumulative or not.
C3_ErrorOnEmptyOrNonPositive ==
    (TickDone /\ (last.total = <<>> \/ last.res.ymax <= 0)) =>
        last.res.outcome # "returned"

LineplotDone == last.op = "lineplot" /\ last.pc = "done"

\* C4: with cumulative=True the values drawn for every category, and for the
\* totals when supplied, are the running sums of the input values along the
\* x-axis (the value at place i is the sum of the inputs at places 1 .. i);
\* with cumulative=False they are the inputs.
C4_DrawnValuesAreRunningSums ==
    LineplotDone =>
        LET a == last.args
            Expected(src) ==
                [i \in 1..Len(src) |-> IF a.cumulative THEN PrefixSum(src, i) ELSE src[i]]
        IN  /\ \A j \in 1..Len(last.res.drawn) :
                /\ last.res.drawn[j].label = last.categories[j]
                /\ last.res.drawn[j].ys = Expected(a.df.data[last.categories[j]])
            /\ last.res.outcome = "returned" =>
                /\ Len(last.res.drawn) = Len(last.categories)
                /\ a.totals.given =>
                    /\ last.res.totals_drawn.given
                    /\ last.res.totals_drawn.val.ys = Expected(a.totals.val)

\* A=[1,2,3], B=[0,1,1] are drawn as A=[1,3,6], B=[0,1,2], the totals [1,3,4]
\* as [1,4,8]
C4_Witness ==
    /\ LineplotDone
    /\ last.args.cumulative
    /\ last.args.df.data["A"] = <<1, 2, 3>>
    /\ last.args.df.data["B"] = <<0, 1, 1>>
    /\ last.args.totals = Some(<<1, 3, 4>>)
    /\ last.res.outcome = "returned"
    /\ last.res.drawn[1].ys = <<1, 3, 6>>
    /\ last.res.drawn[2].ys = <<0, 1, 2>>
    /\ last.res.totals_drawn.val.ys = <<1, 4, 8>>

NamesAbsentColumn ==
    \E j \in 1..Len(last.categories) :
        last.categories[j] \notin Range(last.args.df.columns)

TotalsMismatch ==
    /\ last.args.totals.given
    /\ Len(last.args.totals.val) # Len(last.args.df.index)

\* C5: a call whose categories name a column the table has not, or whose
\* totals differ in length from the table's x-axis, ends in an error raised to
\* the caller: nothing is displayed or returned, the absent column is not
\* drawn, and the mismatched totals are not drawn, truncated or padded.
C5_MalformedInputRaises ==
    (LineplotDone /\ (NamesAbsentColumn \/ TotalsMismatch)) =>
        /\ last.res.outcome \in {"KeyError", "ValueError", "IndexError"}
        /\ last.res.shows = 0
        /\ ~last.res.returned.given
        /\ ~last.res.totals_drawn.given
        /\ \A j \in 1..Len(last.res.drawn) :
              last.res.drawn[j].label \in Range(last.args.df.columns)

\* every category drawn, then totals one short of the x-axis
C5_Witness ==
    /\ LineplotDone
    /\ ~NamesAbsentColumn
    /\ TotalsMismatch
    /\ Len(last.res.drawn) = 2
    /\ last.res.outcome = "ValueError"

\* the sum of the column heights h[1] .. h[k]
RECURSIVE Entries(_, _)
Entries(h, k) == IF k = 0 THEN 0 ELSE Entries(h, k - 1) + h[k]

\* C9: with the legend enabled and n >= 1 categories drawn, with or without
\* the 'Total' entry, the n // 4 + 1 columns of the legend hold all its
\* entries and none of them holds more than 4.
C9_LegendColumnsHoldAtMostFour ==
    (LineplotDone /\ last.res.legend.given /\ Len(last.res.drawn) >= 1) =>
        LET legend == last.res.legend.val IN
        /\ legend.ncol = Len(last.res.drawn) \div 4 + 1
        /\ legend.entries = Len(last.res.drawn) + (IF last.args.totals.given THEN 1 ELSE 0)
        /\ Entries(legend.columns, Len(legend.columns)) = legend.entries
        /\ \A c \in 1..Len(legend.columns) : legend.columns[c] <= 4

\* seven categories and the Total: eight entries in two columns of four
C9_Witness ==
    /\ LineplotDone
    /\ last.res.legend.given
    /\ Len(last.res.drawn) = 7
    /\ last.args.totals.given
    /\ last.res.legend.val.columns = <<4, 4>>

\* C10: a call that raises has created no figure and leaves none registered,
\* displays nothing and returns no figure.
C10_FailedCallLeavesNoFigure ==
    [][(ncalls' = ncalls + 1 /\ last'.res.outcome # "returned") =>
            /\ last'.res.fig = 0
            /\ figs' = figs
            /\ last'.res.shows = 0
            /\ ~last'.res.returned.given]_vars

\* C6: any two calls with the same ordered categories and no explicit
\* category-color map assign the same colors in the same order, the first
\* call of the process included.
C6_SameCategoriesSameColors ==
    \A p \in assigned : \A q \in assigned : p[1] = q[1] => p[2] = q[2]

\* C7: a lineplot call leaves the process-wide palette and style and the
\* figure registry as it found them.
C7_CallLeavesSharedStateUnchanged ==
    [][ncalls' = ncalls + 1 => (rc' = rc /\ figs' = figs)]_vars

WriteDone == last.op = "write" /\ last.pc = "done"

\* C8: write, called with a data_key present in data, shows only the columns
\* it is given of data[data_key], and every column when columns is None.
C8_WriteShowsTheColumnsAsked ==
    (WriteDone /\ last.data_key.given /\ last.data_key.val \in DOMAIN last.data
        /\ last.res.outcome = "returned") =>
        /\ last.res.written.given
        /\ last.res.written.val.kind = "frame"
        /\ last.res.written.val.columns =
              IF last.columns.given THEN last.columns.val
              ELSE last.data[last.data_key.val].columns

====
